---- MODULE Spec2Model ----
(***************************************************************************)
(* A model of task_manager_mcp.py: the in-memory task table, the id        *)
(* counter, the JSON snapshot file and the five tool handlers.             *)
(*                                                                         *)
(* Python values are represented as follows.                               *)
(*   str            a sequence of one-character strings, <<"a", " ">>      *)
(*   Optional[x]    None is <<>>, a present value x is <<x>>               *)
(*   datetime       a pair <<seconds, microseconds>>                       *)
(*   dict           a sequence of entries in insertion order               *)
(***************************************************************************)
EXTENDS Integers, Sequences, FiniteSets, TLC

VARIABLES
    tasks_db,       \* the table: task dicts in insertion order, keyed by .id
    task_counter,   \* the id counter
    storage_file,   \* the snapshot file ~/.task_manager_data.json
    result,         \* what the last tool call returned to its caller
    minted,         \* history: the ids create_task has returned, in order,
                    \* over the life of the snapshot file
    wrote,          \* history: how the last call's save_tasks() ended
    listed,         \* history: the filters of the last list_tasks call
    runs,           \* history: how often the process was started again
    calls           \* the call each caller has in flight: its handler, its
                    \* request, the point its coroutine stands at, its locals

vars ==
    <<tasks_db, task_counter, storage_file, result, minted, wrote, listed, runs, calls>>

(***************************************************************************)
(* Bounds of the model.                                                    *)
(***************************************************************************)
MaxCounter == 2     \* create_task is not called once the counter is here
MaxListed == 2      \* the largest table list_tasks is applied to on its own
MaxRuns == 1        \* the process is started again at most this often

(***************************************************************************)
(* Program constants.                                                      *)
(***************************************************************************)
MAX_TITLE_LENGTH == 200
MAX_DESCRIPTION_LENGTH == 1000

None == << >>
Some(x) == <<x>>

\* PRIORITY_ORDER = {"high": 0, "medium": 1, "low": 2}
PRIORITY_ORDER == [high |-> 0, medium |-> 1, low |-> 2]

Priorities == {"low", "medium", "high"}

(***************************************************************************)
(* Strings.                                                                *)
(***************************************************************************)
IsSpace(c) == c = " "

RECURSIVE lstrip(_)
lstrip(s) == IF s # << >> /\ IsSpace(Head(s)) THEN lstrip(Tail(s)) ELSE s

RECURSIVE rstrip(_)
rstrip(s) ==
    IF s # << >> /\ IsSpace(s[Len(s)]) THEN rstrip(SubSeq(s, 1, Len(s) - 1)) ELSE s

\* str_strip_whitespace=True: str.strip() on every string field
strip(s) == rstrip(lstrip(s))

\* Python's str comparison a < b: the first differing character decides, and
\* a proper prefix is smaller. Characters here are compared by CharCode.
CharCode(c) ==
    CASE c = " " -> 32 [] c = "." -> 46 [] c = "0" -> 48 [] c = "1" -> 49
      [] c = "2" -> 50 [] c = "3" -> 51 [] c = "4" -> 52 [] c = "5" -> 53
      [] c = "6" -> 54 [] c = "7" -> 55 [] c = "8" -> 56 [] c = "9" -> 57
      [] c = "a" -> 97 [] c = "b" -> 98 [] c = "d" -> 100 [] OTHER -> 120

RECURSIVE str_lt(_, _)
str_lt(a, b) ==
    IF b = << >> THEN FALSE
    ELSE IF a = << >> THEN TRUE
    ELSE IF Head(a) # Head(b) THEN CharCode(Head(a)) < CharCode(Head(b))
    ELSE str_lt(Tail(a), Tail(b))

(***************************************************************************)
(* datetime.now().isoformat(). The date and time fields have a fixed       *)
(* width; the microseconds are left out when they are 0. The model keeps   *)
(* the seconds digit and the microsecond digit of the timestamp.           *)
(***************************************************************************)
Digit(n) == CASE n = 0 -> "0" [] n = 1 -> "1" [] n = 2 -> "2" [] n = 3 -> "3"
              [] n = 4 -> "4" [] n = 5 -> "5" [] n = 6 -> "6" [] n = 7 -> "7"
              [] n = 8 -> "8" [] OTHER -> "9"

isoformat(t) ==
    IF t[2] = 0 THEN <<Digit(t[1])>> ELSE <<Digit(t[1]), ".", Digit(t[2])>>

\* datetime.now() is local wall-clock time, which is not monotonic (clock
\* adjustments, DST): in the model any reading may follow any other.

\* f"task-{task_counter}"
task_id_of(n) == "task-" \o ToString(n)

\* The number an id of the form task-N carries (0 for any other string).
Suffix(id) ==
    IF \E n \in 1..(MaxCounter + 2) : task_id_of(n) = id
    THEN CHOOSE n \in 1..(MaxCounter + 2) : task_id_of(n) = id
    ELSE 0

(***************************************************************************)
(* The table: a Python dict, insertion-ordered.                            *)
(***************************************************************************)
\* task_id in tasks_db
has_key(db, id) == \E i \in 1..Len(db) : db[i].id = id

index_of(db, id) == CHOOSE i \in 1..Len(db) : db[i].id = id

\* tasks_db[task_id]
dict_get(db, id) == db[index_of(db, id)]

\* tasks_db[task_id] = task: a new key is appended, an existing key keeps
\* its place and gets the new value
dict_set(db, id, task) ==
    IF has_key(db, id)
    THEN [db EXCEPT ![index_of(db, id)] = task]
    ELSE Append(db, task)

\* A variant that removes the entry in front of the one asked for.
dict_del_off_by_one(db, id) ==
    LET k == index_of(db, id)
        j == IF k > 1 THEN k - 1 ELSE k
    IN  SubSeq(db, 1, j - 1) \o SubSeq(db, j + 1, Len(db))

\* del tasks_db[task_id]
dict_del(db, id) ==
    LET k == index_of(db, id)
    IN  SubSeq(db, 1, k - 1) \o SubSeq(db, k + 1, Len(db))

(***************************************************************************)
(* Persistence: json.dump / json.load of {"tasks": ..., "counter": ...}.   *)
(* A JSON value is <<"null">>, <<"string", s>> or <<"number", n>>; an      *)
(* object is a sequence of <<key, value>> members in document order.       *)
(***************************************************************************)
JsonNull == <<"null">>
JsonString(s) == <<"string", s>>
JsonNumber(n) == <<"number", n>>

task_to_json(t) ==
    << <<"id", JsonString(t.id)>>,
       <<"title", JsonString(t.title)>>,
       <<"description", JsonString(t.description)>>,
       <<"priority", JsonString(t.priority)>>,
       <<"status", JsonString(t.status)>>,
       <<"created_at", JsonString(t.created_at)>>,
       <<"completed_at",
         IF t.completed_at = None THEN JsonNull
         ELSE JsonString(t.completed_at[1])>> >>

\* A variant that writes the number of tasks as the counter.
json_dump_counting_tasks(db, counter) ==
    [tasks   |-> [i \in 1..Len(db) |-> <<db[i].id, task_to_json(db[i])>>],
     counter |-> JsonNumber(Len(db))]
json_dump(db, counter) ==
    [tasks   |-> [i \in 1..Len(db) |-> <<db[i].id, task_to_json(db[i])>>],
     counter |-> JsonNumber(counter)]

\* The file: absent, holding a complete document, or holding the unparsable
\* beginning of one (open(..., 'w') truncates before anything is written).
FileMissing == [state |-> "missing", doc |-> json_dump(<< >>, 0)]
FilePartial == [state |-> "partial", doc |-> json_dump(<< >>, 0)]
FileHolding(doc) == [state |-> "complete", doc |-> doc]

\* How a write can end: it succeeds, open() raises (the file is untouched),
\* or a write raises after open() truncated the file.
WriteOutcomes == {"ok", "open_fails", "write_fails"}

\* save_tasks(): the file afterwards; the exception is swallowed
save_tasks(db, counter, w) ==
    CASE w = "ok"          -> FileHolding(json_dump(db, counter))
      [] w = "open_fails"  -> storage_file
      [] OTHER             -> FilePartial

\* the value of member key of a JSON object
member(object, key) ==
    object[CHOOSE i \in 1..Len(object) : object[i][1] = key][2]

\* A variant that reads null as the empty string.
python_of_null_as_text(value) ==
    IF value = JsonNull THEN Some(<< >>) ELSE Some(value[2])

\* json.load's Python value of a JSON string or null
python_of(value) == IF value = JsonNull THEN None ELSE Some(value[2])

task_from_json(object) ==
    [id           |-> python_of(member(object, "id"))[1],
     title        |-> python_of(member(object, "title"))[1],
     description  |-> python_of(member(object, "description"))[1],
     priority     |-> python_of(member(object, "priority"))[1],
     status       |-> python_of(member(object, "status"))[1],
     created_at   |-> python_of(member(object, "created_at"))[1],
     completed_at |-> python_of(member(object, "completed_at"))]

\* json.load, data.get("tasks", {}), data.get("counter", 0). The entries
\* keep the document's order; every document the program writes keys an
\* entry by its task's id.
json_load(doc) ==
    [tasks   |-> [i \in 1..Len(doc.tasks) |-> task_from_json(doc.tasks[i][2])],
     counter |-> doc.counter[2]]

\* A variant without the try/except: an unparsable file stops the start.
load_tasks_unguarded(file) ==
    CASE file.state = "missing"  ->
            [tasks |-> << >>, counter |-> 0, raised |-> FALSE]
      [] file.state = "partial"  ->
            [tasks |-> << >>, counter |-> 0, raised |-> TRUE]
      [] OTHER ->
            [tasks |-> json_load(file.doc).tasks,
             counter |-> json_load(file.doc).counter, raised |-> FALSE]

\* load_tasks() in a fresh process, where tasks_db = {} and task_counter = 0:
\* nothing is read when the file is missing, the except branch resets both
\* when it cannot be parsed, and no exception leaves the function.
load_tasks(file) ==
    CASE file.state = "missing"  ->
            [tasks |-> << >>, counter |-> 0, raised |-> FALSE]
      [] file.state = "partial"  ->
            [tasks |-> << >>, counter |-> 0, raised |-> FALSE]
      [] OTHER ->
            [tasks |-> json_load(file.doc).tasks,
             counter |-> json_load(file.doc).counter, raised |-> FALSE]

(***************************************************************************)
(* Input models (pydantic): strings are stripped, then the length bounds   *)
(* and the Literal sets are checked. A raw request is a record of the      *)
(* fields the caller sent.                                                 *)
(***************************************************************************)
strip_opt(o) == IF o = None THEN None ELSE Some(strip(o[1]))

\* A variant without min_length on the title.
CreateTaskInput_no_min_length(raw) ==
    LET title == strip(raw.title)
        description == strip_opt(raw.description)
        priority == IF raw.priority = None THEN "medium" ELSE raw.priority[1]
    IN  [valid |-> /\ Len(title) <= MAX_TITLE_LENGTH
                   /\ (description # None =>
                          Len(description[1]) <= MAX_DESCRIPTION_LENGTH)
                   /\ priority \in Priorities,
         title |-> title,
         description |-> description,
         priority |-> priority]
CreateTaskInput(raw) ==
    LET title == strip(raw.title)
        description == strip_opt(raw.description)
        priority == IF raw.priority = None THEN "medium" ELSE raw.priority[1]
    IN  [valid |-> /\ Len(title) >= 1
                   /\ Len(title) <= MAX_TITLE_LENGTH
                   /\ (description # None =>
                          Len(description[1]) <= MAX_DESCRIPTION_LENGTH)
                   /\ priority \in Priorities,
         title |-> title,
         description |-> description,
         priority |-> priority]

UpdateTaskInput(raw) ==
    LET title == strip_opt(raw.title)
        description == strip_opt(raw.description)
    IN  [valid |-> /\ (title # None => Len(title[1]) <= MAX_TITLE_LENGTH)
                   /\ (description # None =>
                          Len(description[1]) <= MAX_DESCRIPTION_LENGTH)
                   /\ (raw.priority # None => raw.priority[1] \in Priorities),
         task_id |-> raw.task_id,
         title |-> title,
         description |-> description,
         priority |-> raw.priority]

\* What the caller gets when the input model rejects its request: the
\* handler is not entered.
ValidationError == [kind |-> "validation_error"]

\* get_task_or_error: (task, None) or (None, error message); the message
\* is modelled by its kind and the id it quotes
get_task_or_error(db, task_id) ==
    IF ~has_key(db, task_id)
    THEN [task |-> None,
          error |-> Some([kind |-> "not_found", task_id |-> task_id])]
    ELSE [task |-> Some(dict_get(db, task_id)), error |-> None]

(***************************************************************************)
(* The callers of the server and their calls. A call is a coroutine of the *)
(* event loop; it stands before its handler's first statement ("start"),   *)
(* between two statements, or has returned ("done").                       *)
(***************************************************************************)
Callers == {"c1", "c2"}

Idle == [op |-> "none", raw |-> None, pc |-> "idle", local |-> None,
         result |-> None]

Call(op, raw) == [op |-> op, raw |-> raw, pc |-> "start", local |-> None,
                  result |-> None]

NoCalls == [c \in Callers |-> Idle]

(***************************************************************************)
(* Init: the module was imported with no snapshot file, so load_tasks()    *)
(* left the table empty and the counter 0.                                 *)
(***************************************************************************)
Init ==
    /\ tasks_db = << >>
    /\ task_counter = 0
    /\ storage_file = FileMissing
    /\ result = [kind |-> "none"]
    /\ minted = << >>
    /\ wrote = "none"
    /\ listed = None
    /\ runs = 0
    /\ calls = NoCalls

\* A variant that saves the table before it returns.
Returns_after_save(r) ==
    /\ result' = r
    /\ wrote' = "ok"
    /\ storage_file' = save_tasks(tasks_db, task_counter, "ok")
    /\ UNCHANGED <<tasks_db, task_counter, minted, listed, runs, calls>>

\* A call that returns r and touches nothing.
Returns(r) ==
    /\ result' = r
    /\ wrote' = "none"
    /\ UNCHANGED <<tasks_db, task_counter, storage_file, minted, listed, runs, calls>>

(***************************************************************************)
(* create_task                                                             *)
(***************************************************************************)
\* A variant that numbers the new task by the size of the table.
next_counter_by_size == Len(tasks_db) + 1

\* task_counter += 1
next_counter == task_counter + 1

new_task(task_id, params, now) ==
    [id           |-> task_id,
     title        |-> params.title,
     description  |-> IF params.description = None THEN << >>
                      ELSE params.description[1],
     priority     |-> params.priority,
     status       |-> "pending",
     created_at   |-> isoformat(now),
     completed_at |-> None]

create_task(raw, now, w) ==
    LET params == CreateTaskInput(raw)
        counter == next_counter
        task_id == task_id_of(counter)
        task == new_task(task_id, params, now)
        db == dict_set(tasks_db, task_id, task)
    IN  /\ task_counter < MaxCounter
        /\ IF ~params.valid
           THEN Returns(ValidationError)
           ELSE /\ task_counter' = counter
                /\ tasks_db' = db
                /\ storage_file' = save_tasks(db, counter, w)
                /\ wrote' = w
                /\ result' = [kind |-> "created", task_id |-> task_id,
                              title |-> task.title, priority |-> task.priority]
                /\ minted' = Append(minted, task_id)
                /\ UNCHANGED <<listed, runs, calls>>

(***************************************************************************)
(* update_task                                                             *)
(***************************************************************************)
\* A variant that writes the description the way create_task does
\* (params.description or ""), clearing it when none is provided.
apply_updates_clearing(task, params) ==
    [task EXCEPT
        !.title = IF params.title # None THEN params.title[1] ELSE @,
        !.description =
            IF params.description # None THEN params.description[1] ELSE << >>,
        !.priority = IF params.priority # None THEN params.priority[1] ELSE @]

\* A variant in which a change of priority reopens the task.
apply_updates_reopening(task, params) ==
    [task EXCEPT
        !.title = IF params.title # None THEN params.title[1] ELSE @,
        !.description =
            IF params.description # None THEN params.description[1] ELSE @,
        !.priority = IF params.priority # None THEN params.priority[1] ELSE @,
        !.status = IF params.priority # None THEN "pending" ELSE @]

\* lines 309-318: the provided fields overwrite the task's, in place
apply_updates(task, params) ==
    [task EXCEPT
        !.title = IF params.title # None THEN params.title[1] ELSE @,
        !.description =
            IF params.description # None THEN params.description[1] ELSE @,
        !.priority = IF params.priority # None THEN params.priority[1] ELSE @]

\* the updates list of the returned message: the fields that were written
update_notes(params) ==
    (IF params.title # None THEN <<"title">> ELSE << >>)
    \o (IF params.description # None THEN <<"description">> ELSE << >>)
    \o (IF params.priority # None THEN <<"priority">> ELSE << >>)

\* A variant that saves only when a field was provided.
update_task_saving_changes(raw, w) ==
    LET params == UpdateTaskInput(raw)
        found == get_task_or_error(tasks_db, params.task_id)
    IN  IF ~params.valid THEN Returns(ValidationError)
        ELSE IF found.error # None THEN Returns(found.error[1])
        ELSE LET task == apply_updates(found.task[1], params)
                 db == dict_set(tasks_db, params.task_id, task)
                 changed == update_notes(params) # << >>
             IN  /\ tasks_db' = db
                 /\ storage_file' = IF changed
                                    THEN save_tasks(db, task_counter, w)
                                    ELSE storage_file
                 /\ wrote' = IF changed THEN w ELSE "none"
                 /\ result' = [kind |-> "updated", task_id |-> params.task_id,
                               updates |-> update_notes(params)]
                 /\ UNCHANGED <<task_counter, minted, listed, runs, calls>>

update_task(raw, w) ==
    LET params == UpdateTaskInput(raw)
        found == get_task_or_error(tasks_db, params.task_id)
    IN  IF ~params.valid THEN Returns(ValidationError)
        ELSE IF found.error # None THEN Returns(found.error[1])
        ELSE LET task == apply_updates(found.task[1], params)
                 db == dict_set(tasks_db, params.task_id, task)
             IN  /\ tasks_db' = db
                 /\ storage_file' = save_tasks(db, task_counter, w)
                 /\ wrote' = w
                 /\ result' = [kind |-> "updated", task_id |-> params.task_id,
                               updates |-> update_notes(params)]
                 /\ UNCHANGED <<task_counter, minted, listed, runs, calls>>

(***************************************************************************)
(* complete_task                                                           *)
(***************************************************************************)
\* A variant without the early return for a completed task.
is_completed_never(task) == FALSE

\* task["status"] == "completed"
is_completed(task) == task.status = "completed"

\* A variant that sets the status and forgets the timestamp.
mark_completed_unstamped(task, now) == [task EXCEPT !.status = "completed"]

\* lines 361-362
mark_completed(task, now) ==
    [task EXCEPT !.status = "completed",
                 !.completed_at = Some(isoformat(now))]

complete_task(task_id, now, w) ==
    LET found == get_task_or_error(tasks_db, task_id)
    IN  IF found.error # None THEN Returns(found.error[1])
        ELSE IF is_completed(found.task[1])
        THEN Returns([kind |-> "already_completed", task_id |-> task_id])
        ELSE LET task == mark_completed(found.task[1], now)
                 db == dict_set(tasks_db, task_id, task)
             IN  /\ tasks_db' = db
                 /\ storage_file' = save_tasks(db, task_counter, w)
                 /\ wrote' = w
                 /\ result' = [kind |-> "completed", task_id |-> task_id,
                               title |-> task.title]
                 /\ UNCHANGED <<task_counter, minted, listed, runs, calls>>

(***************************************************************************)
(* delete_task                                                             *)
(***************************************************************************)
\* A variant that takes the deletion back when the write fails.
delete_task_rolling_back(task_id, w) ==
    LET found == get_task_or_error(tasks_db, task_id)
    IN  IF found.error # None THEN Returns(found.error[1])
        ELSE LET task_title == found.task[1].title
                 db == IF w = "ok" THEN dict_del(tasks_db, task_id)
                       ELSE tasks_db
             IN  /\ tasks_db' = db
                 /\ storage_file' = save_tasks(db, task_counter, w)
                 /\ wrote' = w
                 /\ result' = [kind |-> "deleted", task_id |-> task_id,
                               title |-> task_title]
                 /\ UNCHANGED <<task_counter, minted, listed, runs, calls>>

delete_task(task_id, w) ==
    LET found == get_task_or_error(tasks_db, task_id)
    IN  IF found.error # None THEN Returns(found.error[1])
        ELSE LET task_title == found.task[1].title
                 db == dict_del(tasks_db, task_id)
             IN  /\ tasks_db' = db
                 /\ storage_file' = save_tasks(db, task_counter, w)
                 /\ wrote' = w
                 /\ result' = [kind |-> "deleted", task_id |-> task_id,
                               title |-> task_title]
                 /\ UNCHANGED <<task_counter, minted, listed, runs, calls>>

(***************************************************************************)
(* list_tasks                                                              *)
(***************************************************************************)
\* status and priority are Optional[Literal[...]]: None is accepted for
\* both; status defaults to "all" when the caller omits it.
ListTasksInput(raw) ==
    [valid |-> /\ (raw.status # None =>
                      raw.status[1] \in {"pending", "completed", "all"})
               /\ (raw.priority # None => raw.priority[1] \in Priorities)
               /\ raw.format \in {"json", "markdown"},
     status |-> raw.status,
     priority |-> raw.priority,
     format |-> raw.format]

\* A variant that applies the status filter only.
filter_tasks_status_only(db, status, priority) ==
    SelectSeq(db, LAMBDA task :
        status = Some("all") \/ Some(task.status) = status)

filter_tasks(db, status, priority) ==
    SelectSeq(db, LAMBDA task :
        /\ (status = Some("all") \/ Some(task.status) = status)
        /\ (priority = None \/ Some(task.priority) = priority))

\* A variant whose sort key is the priority rank alone.
key_lt_rank_only(a, b) == PRIORITY_ORDER[a.priority] < PRIORITY_ORDER[b.priority]

\* (PRIORITY_ORDER[a["priority"]], a["created_at"]) <
\* (PRIORITY_ORDER[b["priority"]], b["created_at"]), as Python compares tuples
key_lt(a, b) ==
    \/ PRIORITY_ORDER[a.priority] < PRIORITY_ORDER[b.priority]
    \/ /\ PRIORITY_ORDER[a.priority] = PRIORITY_ORDER[b.priority]
       /\ str_lt(a.created_at, b.created_at)

\* list.sort(key=...): a stable sort, computed here by insertion; an element
\* goes behind every element that is not greater than it
RECURSIVE insert_sorted(_, _)
insert_sorted(sorted, x) ==
    IF sorted = << >> THEN <<x>>
    ELSE IF key_lt(x, Head(sorted)) THEN <<x>> \o sorted
    ELSE <<Head(sorted)>> \o insert_sorted(Tail(sorted), x)

RECURSIVE sort_tasks(_)
sort_tasks(tasks) ==
    IF tasks = << >> THEN << >>
    ELSE insert_sorted(sort_tasks(SubSeq(tasks, 1, Len(tasks) - 1)),
                       tasks[Len(tasks)])

\* the markdown lines of one task
markdown_of(task) ==
    [status |-> task.status, id |-> task.id, title |-> task.title,
     priority |-> task.priority, description |-> task.description]

\* what list_tasks returns of the table db
list_result(db, raw) ==
    LET params == ListTasksInput(raw)
        filtered_tasks == filter_tasks(db, params.status, params.priority)
        sorted == sort_tasks(filtered_tasks)
    IN  IF ~params.valid THEN ValidationError
        ELSE IF filtered_tasks = << >> THEN [kind |-> "no_tasks_found"]
        ELSE IF params.format = "json"
        THEN [kind |-> "tasks", format |-> "json",
              total_count |-> Len(sorted), tasks |-> sorted]
        ELSE [kind |-> "tasks", format |-> "markdown",
              total_count |-> Len(sorted),
              tasks |-> [i \in 1..Len(sorted) |-> markdown_of(sorted[i])]]

list_tasks(raw) ==
    /\ listed' = Some(raw)
    /\ wrote' = "none"
    /\ UNCHANGED <<tasks_db, task_counter, storage_file, minted, runs, calls>>
    /\ result' = list_result(tasks_db, raw)

(***************************************************************************)
(* The handlers as coroutines. Every handler is an async def; the event    *)
(* loop runs a coroutine from the point it stands at to its next await or  *)
(* to its return, and only there lets another coroutine run. A machine m   *)
(* is the table, the counter and the file together with the call that      *)
(* runs; a statement is the step of that call's handler from one point to  *)
(* the next.                                                               *)
(***************************************************************************)
\* A variant of create_task that awaits between task_counter += 1 and the
\* reading of task_counter for the id.
await_points_after_increment == {"incremented"}

\* the points at which a handler awaits: no handler body contains an await
await_points == {}

returns(m, r) == [m EXCEPT !.call.pc = "done", !.call.result = Some(r)]

\* the request with every field but the named one not provided
only(params, field) ==
    [params EXCEPT
        !.title = IF field = "title" THEN @ ELSE None,
        !.description = IF field = "description" THEN @ ELSE None,
        !.priority = IF field = "priority" THEN @ ELSE None]

create_statement(m, now) ==
    LET c == m.call
        params == CreateTaskInput(c.raw)
    IN  CASE c.pc = "start" ->
                IF ~params.valid THEN returns(m, ValidationError)
                ELSE [m EXCEPT !.counter = @ + 1, !.call.pc = "incremented"]
          [] c.pc = "incremented" ->
                [m EXCEPT
                    !.call.local =
                        Some(new_task(task_id_of(m.counter), params, now)),
                    !.call.pc = "built"]
          [] c.pc = "built" ->
                [m EXCEPT !.db = dict_set(@, c.local[1].id, c.local[1]),
                          !.call.pc = "inserted"]
          [] c.pc = "inserted" ->
                [m EXCEPT !.file = save_tasks(m.db, m.counter, "ok"),
                          !.call.pc = "saved"]
          [] c.pc = "saved" ->
                returns(m, [kind |-> "created", task_id |-> c.local[1].id,
                            title |-> c.local[1].title,
                            priority |-> c.local[1].priority])

\* the local task is a reference to the table's entry: every assignment to
\* it is an assignment to the entry
update_statement(m) ==
    LET c == m.call
        params == UpdateTaskInput(c.raw)
        found == get_task_or_error(m.db, params.task_id)
        write(field) ==
            dict_set(m.db, c.local[1],
                     apply_updates(dict_get(m.db, c.local[1]),
                                   only(params, field)))
    IN  CASE c.pc = "start" ->
                IF ~params.valid THEN returns(m, ValidationError)
                ELSE IF found.error # None THEN returns(m, found.error[1])
                ELSE [m EXCEPT !.call.local = Some(params.task_id),
                               !.call.pc = "found"]
          [] c.pc = "found" ->
                [m EXCEPT !.db = write("title"), !.call.pc = "titled"]
          [] c.pc = "titled" ->
                [m EXCEPT !.db = write("description"),
                          !.call.pc = "described"]
          [] c.pc = "described" ->
                [m EXCEPT !.db = write("priority"), !.call.pc = "prioritised"]
          [] c.pc = "prioritised" ->
                [m EXCEPT !.file = save_tasks(m.db, m.counter, "ok"),
                          !.call.pc = "saved"]
          [] c.pc = "saved" ->
                returns(m, [kind |-> "updated", task_id |-> params.task_id,
                            updates |-> update_notes(params)])

list_statement(m) == returns(m, list_result(m.db, m.call.raw))

statement(m, now) ==
    CASE m.call.op = "create_task" -> create_statement(m, now)
      [] m.call.op = "update_task" -> update_statement(m)
      [] m.call.op = "list_tasks"  -> list_statement(m)

\* the run of the coroutine until it awaits or returns
RECURSIVE run_coroutine(_, _)
run_coroutine(m, now) ==
    LET n == statement(m, now)
    IN  IF n.call.pc = "done" \/ n.call.pc \in await_points THEN n
        ELSE run_coroutine(n, now)

\* the event loop gives caller c's coroutine its turn
resume(c, now) ==
    LET m == run_coroutine([db |-> tasks_db, counter |-> task_counter,
                            file |-> storage_file, call |-> calls[c]], now)
        returned == m.call.pc = "done"
        r == m.call.result[1]
    IN  /\ calls[c].pc \notin {"idle", "done"}
        /\ (calls[c].op = "create_task" /\ calls[c].pc = "start")
             => task_counter < MaxCounter
        /\ tasks_db' = m.db
        /\ task_counter' = m.counter
        /\ storage_file' = m.file
        /\ calls' = [calls EXCEPT ![c] = m.call]
        /\ result' = IF returned THEN r ELSE result
        /\ minted' = IF returned /\ r.kind = "created"
                     THEN Append(minted, r.task_id) ELSE minted
        /\ wrote' = IF ~returned THEN wrote
                    ELSE IF r.kind \in {"created", "updated"} THEN "ok"
                    ELSE "none"
        /\ listed' = IF returned /\ calls[c].op = "list_tasks"
                     THEN Some(calls[c].raw) ELSE listed
        /\ UNCHANGED runs

\* every caller sends a request while no call is in flight
arrive(requests) ==
    /\ \A c \in Callers : calls[c].pc \in {"idle", "done"}
    /\ calls' \in [Callers -> requests]
    /\ UNCHANGED <<tasks_db, task_counter, storage_file, result, minted,
                   wrote, listed, runs>>

(***************************************************************************)
(* One tool call, with the requests, clock readings and write outcomes     *)
(* drawn from the given sets.                                              *)
(***************************************************************************)
TaskIdInputs == {task_id_of(n) : n \in 1..MaxCounter} \cup {"task-x"}

Step(creates, updates, clock, writes) ==
    \/ \E raw \in creates, now \in clock, w \in writes :
          create_task(raw, now, w)
    \/ \E raw \in updates, w \in writes : update_task(raw, w)
    \/ \E task_id \in TaskIdInputs, now \in clock, w \in writes :
          complete_task(task_id, now, w)
    \/ \E task_id \in TaskIdInputs, w \in writes : delete_task(task_id, w)

CreateRequest(title, description, priority) ==
    [title |-> title, description |-> description, priority |-> priority]

UpdateFields(title, description, priority) ==
    [title |-> title, description |-> description, priority |-> priority]

UpdateRequests(fields) ==
    {[task_id |-> id, title |-> f.title, description |-> f.description,
      priority |-> f.priority] : id \in TaskIdInputs, f \in fields}

(***************************************************************************)
(* Spec: the life of the tasks. Two kinds of task are created, the         *)
(* priority is updated, every write succeeds.                              *)
(***************************************************************************)
Creates ==
    {CreateRequest(<<"a">>, None, None),
     CreateRequest(<<" ", "b">>, Some(<<"d", " ">>), Some("high")),
     CreateRequest(<<" ">>, None, None)}

Updates ==
    UpdateRequests({UpdateFields(None, None, None),
                    UpdateFields(None, None, Some("low"))})

Clock == {<<1, 0>>, <<1, 1>>}

Next == Step(Creates, Updates, Clock, {"ok"})

Spec == Init /\ [][Next]_vars

(***************************************************************************)
(* SpecUpdate: one kind of task is created and update_task is sent no      *)
(* field, each field alone, all three fields, and a priority outside the   *)
(* Literal set.                                                            *)
(***************************************************************************)
CreatesU == {CreateRequest(<<"a">>, None, None)}

FieldsU ==
    {UpdateFields(None, None, None),
     UpdateFields(Some(<<" ", "b">>), None, None),
     UpdateFields(None, Some(<<"d">>), None),
     UpdateFields(None, None, Some("high")),
     UpdateFields(Some(<<" ", "b">>), Some(<<"d">>), Some("high")),
     UpdateFields(None, None, Some("urgent"))}

ClockU == {<<1, 0>>}

UpdatesU == UpdateRequests(FieldsU)

NextUpdate == Step(CreatesU, UpdatesU, ClockU, {"ok"})

SpecUpdate == Init /\ [][NextUpdate]_vars

(***************************************************************************)
(* SpecIO: the writes may fail. One kind of task is created, update_task   *)
(* is sent no field.                                                       *)
(***************************************************************************)
UpdatesIO ==
    UpdateRequests({UpdateFields(None, None, None),
                    UpdateFields(None, None, Some("high"))})

NextIO == Step(CreatesU, UpdatesIO, ClockU, WriteOutcomes)

SpecIO == Init /\ [][NextIO]_vars

(***************************************************************************)
(* SpecRestart: the writes may fail and the process may end and start      *)
(* again, which loads the table and the counter from the file.             *)
(***************************************************************************)
start_again ==
    LET loaded == load_tasks(storage_file)
    IN  /\ runs < MaxRuns
        /\ runs' = runs + 1
        /\ tasks_db' = loaded.tasks
        /\ task_counter' = loaded.counter
        /\ result' = [kind |-> IF loaded.raised THEN "failed_to_start"
                               ELSE "started"]
        /\ wrote' = "none"
        /\ listed' = None
        /\ UNCHANGED <<storage_file, minted, calls>>

UpdatesR == UpdateRequests({UpdateFields(None, None, None)})

NextRestart ==
    \/ Step(CreatesU, UpdatesR, ClockU, WriteOutcomes)
    \/ start_again

SpecRestart == Init /\ [][NextRestart]_vars

(***************************************************************************)
(* SpecValidation: the requests at and beyond the bounds of the input      *)
(* models: titles of no, 200 and 201 characters after stripping, a         *)
(* description of 1000 and of 1001 characters, a priority outside the      *)
(* Literal, and updates whose title is blank.                              *)
(***************************************************************************)
Rep(c, n) == [i \in 1..n |-> c]

CreatesV ==
    {CreateRequest(<<"a">>, None, None),
     CreateRequest(<<" ">> \o Rep("a", MAX_TITLE_LENGTH),
                   Some(Rep("d", MAX_DESCRIPTION_LENGTH)), Some("low")),
     CreateRequest(<< >>, None, None),
     CreateRequest(<<" ", " ">>, None, None),
     CreateRequest(Rep("a", MAX_TITLE_LENGTH + 1), None, None),
     CreateRequest(<<"a">>, Some(Rep("d", MAX_DESCRIPTION_LENGTH + 1)), None),
     CreateRequest(<<"a">>, None, Some("urgent"))}

UpdatesV ==
    UpdateRequests({UpdateFields(None, None, None),
                    UpdateFields(Some(<<" ", " ">>), None, None)})

NextValidation == Step(CreatesV, UpdatesV, ClockU, {"ok"})

SpecValidation == Init /\ [][NextValidation]_vars

(***************************************************************************)
(* SpecConcurrent: the callers send their requests together and the event  *)
(* loop runs the coroutines in any order.                                  *)
(***************************************************************************)
CallsC ==
    {Call("create_task", CreateRequest(<<"a">>, None, None)),
     Call("update_task",
          [task_id |-> "task-1", title |-> Some(<<"b">>),
           description |-> None, priority |-> Some("high")]),
     Call("update_task",
          [task_id |-> "task-1", title |-> None,
           description |-> Some(<<"d">>), priority |-> None]),
     Call("list_tasks",
          [status |-> Some("all"), priority |-> None, format |-> "json"])}

NextConcurrent ==
    \/ arrive(CallsC)
    \/ \E c \in Callers, now \in ClockU : resume(c, now)

SpecConcurrent == Init /\ [][NextConcurrent]_vars

(***************************************************************************)
(* SpecList: list_tasks applied to the tables of up to MaxListed tasks     *)
(* that differ in priority, creation time and status. The process starts   *)
(* with such a table loaded from the snapshot an earlier run wrote.        *)
(***************************************************************************)
ClockL == {<<1, 0>>, <<1, 1>>, <<2, 0>>}

Absent == [absent |-> TRUE]

\* what a slot of the table may hold: nothing, or a task with this history
Slots ==
    {Absent} \cup
    [priority : Priorities, created : ClockL, completed : {None, Some(<<2, 0>>)}]

\* the task create_task, update_task and complete_task leave for a slot
task_of(n, slot) ==
    LET created == new_task(task_id_of(n),
                            [title |-> <<"a">>, description |-> None,
                             priority |-> slot.priority],
                            slot.created)
    IN  IF slot.completed = None THEN created
        ELSE mark_completed(created, slot.completed[1])

RECURSIVE table_of(_, _)
table_of(slots, n) ==
    IF n = 0 THEN << >>
    ELSE IF slots[n] = Absent THEN table_of(slots, n - 1)
    ELSE Append(table_of(slots, n - 1), task_of(n, slots[n]))

Tables == {table_of(slots, MaxListed) : slots \in [1..MaxListed -> Slots]}

ListRequests ==
    [status : {None, Some("all"), Some("pending"), Some("completed")},
     priority : {None} \cup {Some(p) : p \in Priorities},
     format : {"json"}]
    \cup {[status |-> Some("all"), priority |-> None, format |-> "markdown"],
          [status |-> Some("pending"), priority |-> Some("high"),
           format |-> "markdown"],
          [status |-> Some("done"), priority |-> None, format |-> "json"]}

InitList ==
    /\ tasks_db \in Tables
    /\ task_counter = MaxListed
    /\ storage_file = FileHolding(json_dump(tasks_db, task_counter))
    /\ result = [kind |-> "none"]
    /\ minted = << >>
    /\ wrote = "none"
    /\ listed = None
    /\ runs = 0
    /\ calls = NoCalls

NextList == \E raw \in ListRequests : list_tasks(raw)

SpecList == InitList /\ [][NextList]_vars

(***************************************************************************)
(* Properties.                                                             *)
(***************************************************************************)
Ids(db) == {db[i].id : i \in 1..Len(db)}

\* C1: within one run the k-th id create_task returns is task-k, so each id
\* minted carries a number strictly greater than every id minted before it,
\* whatever was updated, completed or deleted in between; no id is minted
\* twice, and every task in the table carries a minted id.
C1_IdsNeverReused ==
    /\ \A k \in 1..Len(minted) : minted[k] = task_id_of(k)
    /\ \A j, k \in 1..Len(minted) :
          j < k => Suffix(minted[j]) < Suffix(minted[k])
    /\ \A i \in 1..Len(tasks_db) :
          \E k \in 1..Len(minted) : tasks_db[i].id = minted[k]
    /\ \A i, j \in 1..Len(tasks_db) :
          tasks_db[i].id = tasks_db[j].id => i = j

\* C1 witness: task-1 was created and deleted, and the create that just
\* returned minted task-2 into the emptied table.
C1_Witness ==
    /\ result.kind = "created"
    /\ result.task_id = "task-2"
    /\ Len(minted) = 2
    /\ Ids(tasks_db) = {"task-2"}

\* C2: a complete_task that directly follows a complete_task of the same
\* existing task succeeds with the already-completed message and changes
\* nothing: not the table (so not status or completed_at), not the counter,
\* not the file.
C2_CompleteIdempotent ==
    [][\A id \in TaskIdInputs :
          ( /\ result.kind \in {"completed", "already_completed"}
            /\ result.task_id = id
            /\ \E now \in Clock, w \in WriteOutcomes :
                  complete_task(id, now, w) )
          => /\ result' = [kind |-> "already_completed", task_id |-> id]
             /\ UNCHANGED <<tasks_db, task_counter, storage_file>>]_vars

\* C2 witness: the second complete_task has returned, and the task holds a
\* completion time.
C2_Witness ==
    /\ result.kind = "already_completed"
    /\ has_key(tasks_db, result.task_id)
    /\ dict_get(tasks_db, result.task_id).completed_at # None

\* C3: every task of the table has completed_at set exactly when its status
\* is completed.
C3_CompletedAtIffCompleted ==
    \A i \in 1..Len(tasks_db) :
        (tasks_db[i].completed_at # None) <=> (tasks_db[i].status = "completed")

\* C3 witness: a completed task with its timestamp beside a pending one.
C3_Witness ==
    \E i, j \in 1..Len(tasks_db) :
        /\ tasks_db[i].status = "completed"
        /\ tasks_db[i].completed_at # None
        /\ tasks_db[j].status = "pending"

\* C4: a task enters the table pending, and in every step a task that is
\* completed and still in the table afterwards is still completed, with the
\* same completed_at.
C4_CompletedIsTerminal ==
    [][\A id \in TaskIdInputs :
          /\ (~has_key(tasks_db, id) /\ has_key(tasks_db', id))
                => dict_get(tasks_db', id).status = "pending"
          /\ ( /\ has_key(tasks_db, id)
               /\ has_key(tasks_db', id)
               /\ dict_get(tasks_db, id).status = "completed" )
                => /\ dict_get(tasks_db', id).status = "completed"
                   /\ dict_get(tasks_db', id).completed_at
                         = dict_get(tasks_db, id).completed_at]_vars

\* C4 witness: a completed task has just had its priority updated.
C4_Witness ==
    /\ result.kind = "updated"
    /\ result.updates = <<"priority">>
    /\ has_key(tasks_db, result.task_id)
    /\ dict_get(tasks_db, result.task_id).status = "completed"

\* the table without the entries of key id, the others in their order
Without(db, id) == SelectSeq(db, LAMBDA t : t.id # id)

\* C5: an accepted update_task of an existing task gives title, description
\* and priority the provided (stripped) value where one was provided, and
\* leaves alone the fields not provided, the task's id, status, created_at
\* and completed_at, its place in the table, every other task and the
\* counter.
C5_UpdateFrame ==
    [][\A f \in FieldsU :
          LET raw == [task_id |-> result'.task_id, title |-> f.title,
                      description |-> f.description, priority |-> f.priority]
              params == UpdateTaskInput(raw)
              id == raw.task_id
          IN  ( /\ result'.kind = "updated"
                /\ result'.updates = update_notes(f)
                /\ has_key(tasks_db, id)
                /\ params.valid
                /\ update_task(raw, wrote') )
              => LET old == dict_get(tasks_db, id)
                     new == dict_get(tasks_db', id)
                 IN  /\ has_key(tasks_db', id)
                     /\ new.title = IF f.title = None THEN old.title
                                    ELSE strip(f.title[1])
                     /\ new.description =
                           IF f.description = None THEN old.description
                           ELSE strip(f.description[1])
                     /\ new.priority = IF f.priority = None THEN old.priority
                                       ELSE f.priority[1]
                     /\ new.id = old.id
                     /\ new.status = old.status
                     /\ new.created_at = old.created_at
                     /\ new.completed_at = old.completed_at
                     /\ index_of(tasks_db', id) = index_of(tasks_db, id)
                     /\ Without(tasks_db', id) = Without(tasks_db, id)
                     /\ Len(tasks_db') = Len(tasks_db)
                     /\ task_counter' = task_counter]_vars

\* C5 witness: only the priority of a completed task was updated, and a
\* second task is in the table.
C5_Witness ==
    /\ result.kind = "updated"
    /\ result.updates = <<"priority">>
    /\ Len(tasks_db) = 2
    /\ dict_get(tasks_db, result.task_id).priority = "high"
    /\ dict_get(tasks_db, result.task_id).title = <<"a">>
    /\ dict_get(tasks_db, result.task_id).completed_at # None

\* C9: delete_task of an id in the table removes that entry and no other,
\* keeps the order of the rest and the counter, and returns the removed
\* task's title; a lookup of the id afterwards is not-found.
C9_DeleteFrame ==
    [][\A id \in TaskIdInputs :
          ( /\ has_key(tasks_db, id)
            /\ \E w \in WriteOutcomes : delete_task(id, w) )
          => /\ tasks_db' = Without(tasks_db, id)
             /\ Len(tasks_db') = Len(tasks_db) - 1
             /\ get_task_or_error(tasks_db', id).task = None
             /\ get_task_or_error(tasks_db', id).error
                   = Some([kind |-> "not_found", task_id |-> id])
             /\ task_counter' = task_counter
             /\ result' = [kind |-> "deleted", task_id |-> id,
                           title |-> dict_get(tasks_db, id).title]]_vars

\* C9 witness: the second of two tasks was deleted, the first remains and
\* the counter still stands at 2.
C9_Witness ==
    /\ result.kind = "deleted"
    /\ result.task_id = "task-2"
    /\ Ids(tasks_db) = {"task-1"}
    /\ task_counter = 2

\* the ids list_tasks returned, in the order returned
ListedIds == [i \in 1..Len(result.tasks) |-> result.tasks[i].id]

\* the filters of the claim: a status of pending, completed or all
ClaimedFilters ==
    /\ listed # None
    /\ listed[1].status \in {Some("all"), Some("pending"), Some("completed")}
    /\ listed[1].priority \in {None} \cup {Some(p) : p \in Priorities}
    /\ listed[1].format \in {"json", "markdown"}

Matches(task, status, priority) ==
    /\ (task.status = status[1] \/ status[1] = "all")
    /\ (priority = None \/ task.priority = priority[1])

\* C6: for the filters (s, p) of the last list_tasks call, s one of pending,
\* completed, all, the call returned each task of the table that has
\* (status = s or s = all) and (priority = p or p = none), once, and no
\* other; when no task matches it returned the "No tasks found." message,
\* which is no error.
C6_ListFilters ==
    ClaimedFilters =>
        LET matching == {i \in 1..Len(tasks_db) :
                            Matches(tasks_db[i], listed[1].status,
                                    listed[1].priority)}
        IN  IF matching = {} THEN result = [kind |-> "no_tasks_found"]
            ELSE /\ result.kind = "tasks"
                 /\ Len(result.tasks) = Cardinality(matching)
                 /\ result.total_count = Cardinality(matching)
                 /\ {ListedIds[k] : k \in 1..Len(result.tasks)}
                       = {tasks_db[i].id : i \in matching}

\* C6 witness: a list of the pending high-priority tasks returned one of
\* two tasks and left out the other, which is pending too but low.
C6_Witness ==
    /\ listed = Some([status |-> Some("pending"), priority |-> Some("high"),
                      format |-> "json"])
    /\ result.kind = "tasks"
    /\ ListedIds = <<"task-2">>
    /\ has_key(tasks_db, "task-1")
    /\ dict_get(tasks_db, "task-1").status = "pending"
    /\ dict_get(tasks_db, "task-1").priority = "low"

\* C6 witness for the empty result: the filter matched nothing in a table
\* that is not empty.
C6_WitnessEmpty ==
    /\ ClaimedFilters
    /\ result = [kind |-> "no_tasks_found"]
    /\ tasks_db # << >>

\* the time a created_at string stands for, in tenths
DigitValue(c) == CHOOSE n \in 0..9 : Digit(n) = c

TimeOf(s) == 10 * DigitValue(s[1]) + (IF Len(s) = 3 THEN DigitValue(s[3]) ELSE 0)

\* C7: the tasks list_tasks returned are in ascending order of priority
\* rank (high, medium, low), within one priority in ascending order of
\* creation time, and with both equal in the order of the table.
C7_ListOrder ==
    (ClaimedFilters /\ result.kind = "tasks") =>
        \A j, k \in 1..Len(result.tasks) :
            j < k =>
                LET a == dict_get(tasks_db, ListedIds[j])
                    b == dict_get(tasks_db, ListedIds[k])
                    ra == PRIORITY_ORDER[a.priority]
                    rb == PRIORITY_ORDER[b.priority]
                IN  \/ ra < rb
                    \/ ra = rb /\ TimeOf(a.created_at) < TimeOf(b.created_at)
                    \/ /\ ra = rb
                       /\ a.created_at = b.created_at
                       /\ index_of(tasks_db, a.id) < index_of(tasks_db, b.id)

\* C7 witness: the listing differs from the table's order, by priority in
\* one place and by creation time in another.
C7_Witness ==
    /\ ClaimedFilters
    /\ result.kind = "tasks"
    /\ Len(result.tasks) = 2
    /\ ListedIds = <<"task-2", "task-1">>
    /\ dict_get(tasks_db, "task-1").priority = dict_get(tasks_db, "task-2").priority
    /\ dict_get(tasks_db, "task-2").created_at = <<"1">>
    /\ dict_get(tasks_db, "task-1").created_at = <<"1", ".", "1">>

\* C7 witness for ties: two tasks of one priority and one creation time
\* are listed in the order of the table.
C7_WitnessTie ==
    /\ ClaimedFilters
    /\ result.kind = "tasks"
    /\ ListedIds = <<"task-1", "task-2">>
    /\ dict_get(tasks_db, "task-1").priority = dict_get(tasks_db, "task-2").priority
    /\ dict_get(tasks_db, "task-1").created_at = dict_get(tasks_db, "task-2").created_at

\* C8: update_task, complete_task and delete_task of an id that is no key
\* of the table return the not-found message quoting that id, and leave the
\* table, the counter and the file as they were, writing nothing.
C8_NotFoundChangesNothing ==
    [][\A id \in TaskIdInputs :
          ( /\ ~has_key(tasks_db, id)
            /\ \/ \E raw \in UpdatesIO, w \in WriteOutcomes :
                     raw.task_id = id /\ update_task(raw, w)
               \/ \E now \in ClockU, w \in WriteOutcomes :
                     complete_task(id, now, w)
               \/ \E w \in WriteOutcomes : delete_task(id, w) )
          => /\ result' = [kind |-> "not_found", task_id |-> id]
             /\ wrote' = "none"
             /\ UNCHANGED <<tasks_db, task_counter, storage_file>>]_vars

\* C8 witness: task-1 was deleted and asked for again while the file, after
\* a failed write, holds an older table than memory.
C8_Witness ==
    /\ result = [kind |-> "not_found", task_id |-> "task-1"]
    /\ Ids(tasks_db) = {"task-2"}
    /\ storage_file.state = "complete"
    /\ storage_file # FileHolding(json_dump(tasks_db, task_counter))

MutationResults == {"created", "updated", "completed", "deleted"}

\* C10: when the last call was a create_task, an update_task of an existing
\* id, a complete_task of a pending task or a delete_task of an existing
\* id, it called save_tasks, and if that write did not fail the file holds
\* the document of the table and counter now in memory.
C10_SavedAfterMutation ==
    result.kind \in MutationResults =>
        /\ wrote \in WriteOutcomes
        /\ wrote = "ok" =>
              storage_file = FileHolding(json_dump(tasks_db, task_counter))

\* C10 witness: an update_task with no field has returned and its write
\* succeeded, with a completed task in the table.
C10_Witness ==
    /\ result.kind = "updated"
    /\ result.updates = << >>
    /\ wrote = "ok"
    /\ dict_get(tasks_db, result.task_id).status = "completed"
    /\ storage_file = FileHolding(json_dump(tasks_db, task_counter))

(***************************************************************************)
(* Persistence across a restart (SpecRestart)                              *)
(***************************************************************************)
Saved == FileHolding(json_dump(tasks_db, task_counter))

\* C11: when the process starts again on the snapshot a successful
\* save_tasks wrote of the table in memory, load_tasks yields the same tasks
\* in the same order with the same attributes and the same counter, and
\* saving that state again writes the same snapshot.
C11_SaveLoadRoundTrip ==
    [][(runs' = runs + 1 /\ storage_file = Saved)
         => /\ result'.kind = "started"
            /\ tasks_db' = tasks_db
            /\ task_counter' = task_counter
            /\ save_tasks(tasks_db', task_counter', "ok") = storage_file]_vars

C11_Witness ==
    /\ runs = 1
    /\ result.kind = "started"
    /\ storage_file = Saved
    /\ Len(tasks_db) = 2
    /\ tasks_db[1].id = "task-1"
    /\ tasks_db[1].completed_at = None
    /\ tasks_db[2].completed_at # None

\* C12: the snapshot is replaced atomically. A step that starts with a
\* complete, non-empty snapshot on the file leaves on it either that snapshot
\* or the complete snapshot of the new state, also when the write fails, so
\* load_tasks then yields the previous table or the new one, never an empty
\* or partial one.
C12_AtomicSnapshot ==
    [][(storage_file.state = "complete" /\ Len(storage_file.doc.tasks) > 0)
         => /\ storage_file' \in
                  {storage_file,
                   FileHolding(json_dump(tasks_db', task_counter'))}
            /\ load_tasks(storage_file').tasks \in
                  {json_load(storage_file.doc).tasks, tasks_db'}]_vars

(***************************************************************************)
(* Failing writes (SpecIO, SpecRestart)                                    *)
(***************************************************************************)
WriteFailures == WriteOutcomes \ {"ok"}

\* C13: when the write of a mutating call fails, the call still returns its
\* normal result and its change stays in memory: the created task is in the
\* table under the next id, the updated task carries the new fields, the
\* completed task is completed, the deleted task is gone; every later call
\* starts from that state.
C13_FailedWriteKeepsMutation ==
    [][wrote' \in WriteFailures
         => LET id == result'.task_id
            IN  CASE result'.kind = "created" ->
                        /\ ~has_key(tasks_db, id)
                        /\ has_key(tasks_db', id)
                        /\ dict_get(tasks_db', id).title = result'.title
                        /\ Len(tasks_db') = Len(tasks_db) + 1
                        /\ task_counter' = task_counter + 1
                  [] result'.kind = "updated" ->
                        \A raw \in UpdatesIO :
                           LET params == UpdateTaskInput(raw)
                           IN  (/\ params.valid
                                /\ params.task_id = id
                                /\ update_notes(params) = result'.updates)
                                 => dict_get(tasks_db', id) =
                                      apply_updates(dict_get(tasks_db, id),
                                                    params)
                  [] result'.kind = "completed" ->
                        /\ dict_get(tasks_db, id).status = "pending"
                        /\ dict_get(tasks_db', id).status = "completed"
                  [] result'.kind = "deleted" ->
                        /\ has_key(tasks_db, id)
                        /\ ~has_key(tasks_db', id)
                  [] OTHER -> FALSE]_vars

\* the write of a complete_task failed: the task is completed in memory,
\* the call returned its normal result, the file does not hold the change
C13_Witness ==
    /\ wrote \in WriteFailures
    /\ result.kind = "completed"
    /\ dict_get(tasks_db, result.task_id).status = "completed"
    /\ storage_file # Saved

\* what a call whose write succeeded returns: the message alone
PlainSuccess(r) ==
    /\ r.kind \in MutationResults
    /\ DOMAIN r \subseteq {"kind", "task_id", "title", "priority", "updates"}

\* C14: a failed write is observable. The value a mutating call returns is
\* all its caller sees, so when the write failed that value is not the plain
\* message the same call returns when the write succeeded.
C14_FailedWriteObservable ==
    wrote \in WriteFailures => ~PlainSuccess(result)

Unreadable == {"missing", "partial"}

\* C15: a start on a missing or unparsable file does not fail and leaves an
\* empty table and counter 0, and the first create_task after such a start
\* returns 'task-1'.
C15_StartOnUnreadableFile ==
    [][/\ (runs' = runs + 1 /\ storage_file.state \in Unreadable)
            => /\ result'.kind = "started"
               /\ tasks_db' = << >>
               /\ task_counter' = 0
       /\ (/\ result.kind = "started"
           /\ storage_file.state \in Unreadable
           /\ result'.kind = "created")
            => result'.task_id = "task-1"]_vars

\* after a start on a file cut short, create_task returned 'task-1'
C15_Witness ==
    /\ runs = 1
    /\ storage_file.state = "partial"
    /\ result.kind = "created"
    /\ result.task_id = "task-1"
    /\ Len(minted) = 2
    /\ minted[2] = "task-1"

\* the same after a start without a file
C15_WitnessMissing ==
    /\ runs = 1
    /\ storage_file.state = "missing"
    /\ result.kind = "created"
    /\ result.task_id = "task-1"
    /\ Len(minted) = 2

\* C17: in every snapshot the program writes the counter is at least the
\* number every task id in it carries, and so it is in memory, also after a
\* start that loaded such a snapshot.
C17_CounterCoversIds ==
    /\ storage_file.state = "complete"
         => \A i \in 1..Len(storage_file.doc.tasks) :
               Suffix(storage_file.doc.tasks[i][1]) <= storage_file.doc.counter[2]
    /\ \A i \in 1..Len(tasks_db) : Suffix(tasks_db[i].id) <= task_counter

\* a start loaded a snapshot whose only task carries a number above the
\* number of tasks
C17_Witness ==
    /\ runs = 1
    /\ result.kind = "started"
    /\ storage_file.state = "complete"
    /\ Len(tasks_db) = 1
    /\ tasks_db[1].id = "task-2"
    /\ task_counter = 2

\* C18: over the life of the snapshot file, restarts and failed writes
\* included, create_task never returns an id an earlier create_task on that
\* file returned: every call of create_task makes a task of its own, so no
\* id appears twice among the ids returned.
C18_IdsUniqueAcrossRestarts ==
    \A j, k \in 1..Len(minted) : j # k => minted[j] # minted[k]

(***************************************************************************)
(* The bounds of the input models (SpecValidation)                         *)
(***************************************************************************)
\* C16: every task in the table has a title of 1 to 200 characters and a
\* description of at most 1000 characters; no accepted create_task or
\* update_task leaves a task with an empty title.
C16_FieldBounds ==
    \A i \in 1..Len(tasks_db) :
        /\ Len(tasks_db[i].title) >= 1
        /\ Len(tasks_db[i].title) <= 200
        /\ Len(tasks_db[i].description) <= 1000

\* what the request fields say, apart from the input model: a title that is
\* empty or longer than 200 characters once stripped, a description longer
\* than 1000 characters, a priority that is not low, medium or high
Rejectable(raw) ==
    \/ strip(raw.title) = << >>
    \/ Len(strip(raw.title)) > 200
    \/ raw.description # None /\ Len(strip(raw.description[1])) > 1000
    \/ raw.priority # None /\ raw.priority[1] \notin {"low", "medium", "high"}

\* C19: a create_task request with such a field is rejected before anything
\* happens: the call returns the validation error, and the table, the
\* counter and the file stay as they were, so no id is used up.
C19_RejectedCreateChangesNothing ==
    [][\A raw \in CreatesV :
          (Rejectable(raw) /\ create_task(raw, <<1, 0>>, "ok"))
            => /\ result' = ValidationError
               /\ UNCHANGED <<tasks_db, task_counter, storage_file, minted>>]_vars

\* a create_task was rejected after one was accepted: the counter is the
\* number of ids returned and the file holds the table
C19_Witness ==
    /\ result = ValidationError
    /\ tasks_db # << >>
    /\ task_counter = Len(minted)
    /\ storage_file = Saved

(***************************************************************************)
(* Concurrent callers (SpecConcurrent)                                     *)
(***************************************************************************)
\* no call stands between two statements of its handler
NoCallSuspended == \A c \in Callers : calls[c].pc \in {"idle", "start", "done"}

\* the file holds the table and the counter in memory (or nothing was ever
\* written and both are still empty)
InSync ==
    \/ storage_file = Saved
    \/ storage_file = FileMissing /\ tasks_db = << >> /\ task_counter = 0

\* the call of caller c returns in this step
Returning(c) == calls[c].pc # "done" /\ calls'[c].pc = "done"

\* C20: with concurrent callers in one cooperative process every call runs
\* as one step, its change of the table together with its write. No call is
\* ever left between two statements and the file always holds what is in
\* memory; the ids concurrent create_task calls return are distinct; an
\* update that returned is in the table, and a field an update wrote is not
\* taken back by another call; list_tasks runs while no other call is
\* half-way and never shows a task with one field of an update but not the
\* other.
C20_CallsRunAsOneStep ==
    [][/\ NoCallSuspended'
       /\ InSync'
       /\ \A j, k \in 1..Len(minted') : j # k => minted'[j] # minted'[k]
       /\ \A c \in Callers :
             (Returning(c) /\ calls'[c].result[1].kind = "created")
               => has_key(tasks_db', calls'[c].result[1].task_id)
       /\ \A c \in Callers :
             (Returning(c) /\ calls'[c].result[1].kind = "updated")
               => LET params == UpdateTaskInput(calls[c].raw)
                      task == dict_get(tasks_db', params.task_id)
                  IN  task = apply_updates(task, params)
       /\ \A i \in 1..Len(tasks_db) :
             LET old == tasks_db[i]
                 new == dict_get(tasks_db', old.id)
             IN  /\ has_key(tasks_db', old.id)
                 /\ old.title = <<"b">> => new.title = <<"b">>
                 /\ old.priority = "high" => new.priority = "high"
                 /\ old.description = <<"d">> => new.description = <<"d">>
       /\ \A c \in Callers :
             (Returning(c) /\ calls[c].op = "list_tasks")
               => /\ NoCallSuspended
                  /\ calls'[c].result = Some(list_result(tasks_db, calls[c].raw))
                  /\ calls'[c].result[1].kind = "tasks"
                       => \A i \in 1..Len(calls'[c].result[1].tasks) :
                             LET task == calls'[c].result[1].tasks[i]
                             IN  task.title = <<"b">> <=> task.priority = "high"
      ]_vars

\* two create_task calls that arrived together have both returned, with
\* different ids, and the file holds both tasks
C20_Witness ==
    /\ \A c \in Callers :
          /\ calls[c].op = "create_task"
          /\ calls[c].pc = "done"
          /\ calls[c].result[1].kind = "created"
    /\ calls["c1"].result[1].task_id = "task-2"
    /\ calls["c2"].result[1].task_id = "task-1"
    /\ storage_file = Saved
    /\ Len(tasks_db) = 2

\* an update of two fields and a list_tasks arrived together and both
\* returned; the list shows the task as the update left it
C20_WitnessList ==
    /\ calls["c1"].op = "update_task"
    /\ calls["c1"].pc = "done"
    /\ calls["c1"].result[1].kind = "updated"
    /\ calls["c1"].result[1].updates = <<"title", "priority">>
    /\ calls["c2"].op = "list_tasks"
    /\ calls["c2"].pc = "done"
    /\ calls["c2"].result[1].kind = "tasks"
    /\ calls["c2"].result[1].tasks[1].title = <<"b">>

====
